---- MODULE Spec2Model ----
(***************************************************************************)
(* Model of scripts/manage_puzzles.py: the command-line manager of the     *)
(* year-keyed puzzle store puzzles.json.                                   *)
(*                                                                         *)
(* A JSON object is a function from its member names to their values; the  *)
(* puzzles object, whose member order matters on disk, is a sequence of    *)
(* [k, v] members with distinct keys (what json.load yields: a dict in     *)
(* file order).  A string that the program parses or formats (a year key,  *)
(* date_range) is a sequence of one-character strings.                     *)
(***************************************************************************)
EXTENDS Integers, Sequences, FiniteSets, TLC

VARIABLES
    disk,      \* the file at PUZZLES_FILE_PATH: [kind, doc]
    res,       \* the last finished invocation: command, arguments, exit, output
    inv,       \* the invocations running concurrently: each one's position and locals
    writes     \* the order in which the concurrent invocations wrote the file

vars == <<disk, res, inv, writes>>

(***************************************************************************)
(* Bounds of the model.                                                    *)
(***************************************************************************)
MaxKeys == 2        \* most members of puzzles in a stored document

(***************************************************************************)
(* Python's int(str) and str(int) on the characters the model uses.        *)
(***************************************************************************)
Digits == <<"0", "1", "2", "3", "4", "5", "6", "7", "8", "9">>

IsDigit(c) == \E i \in 1..10 : Digits[i] = c

DigitVal(c) == (CHOOSE i \in 1..10 : Digits[i] = c) - 1

HasSign(s) == Len(s) > 0 /\ s[1] \in {"-", "+"}

Unsigned(s) == IF HasSign(s) THEN Tail(s) ELSE s

\* int(s) raises ValueError unless s is an optional sign and one or more digits
IntOk(s) ==
    /\ Len(Unsigned(s)) > 0
    /\ \A i \in 1..Len(Unsigned(s)) : IsDigit(Unsigned(s)[i])

RECURSIVE DigitsVal(_)
DigitsVal(s) ==
    IF Len(s) = 0 THEN 0
    ELSE 10 * DigitsVal(SubSeq(s, 1, Len(s) - 1)) + DigitVal(s[Len(s)])

Int_(s) ==
    IF Len(s) > 0 /\ s[1] = "-" THEN 0 - DigitsVal(Tail(s))
    ELSE DigitsVal(Unsigned(s))

RECURSIVE NatStr(_)
NatStr(n) ==
    IF n < 10 THEN <<Digits[n + 1]>>
    ELSE NatStr(n \div 10) \o <<Digits[(n % 10) + 1]>>

Str(n) == IF n < 0 THEN <<"-">> \o NatStr(0 - n) ELSE NatStr(n)

(***************************************************************************)
(* dict operations on the puzzles object.                                  *)
(***************************************************************************)
Keys(p) == [i \in 1..Len(p) |-> p[i].k]

KeySet(p) == {p[i].k : i \in 1..Len(p)}

Has(p, key) == key \in KeySet(p)

Get(p, key) == p[CHOOSE i \in 1..Len(p) : p[i].k = key].v

\* p[key] = value: in place when the key is a member, at the end otherwise
DictSet(p, key, value) ==
    IF Has(p, key)
    THEN [i \in 1..Len(p) |-> IF p[i].k = key THEN [k |-> key, v |-> value] ELSE p[i]]
    ELSE Append(p, [k |-> key, v |-> value])

\* obj[name] = value on a JSON object
SetField(obj, name, value) == (name :> value) @@ obj

EmptyObj == [f \in {} |-> 0]

(***************************************************************************)
(* sorted(keys, key=int): a stable sort by integer value.                  *)
(***************************************************************************)
\* the comparison the wrong way round: a descending sort
RECURSIVE InsertKeyDescending(_, _)
InsertKeyDescending(sorted, key) ==
    IF Len(sorted) = 0 THEN <<key>>
    ELSE IF Int_(sorted[Len(sorted)]) >= Int_(key) THEN Append(sorted, key)
    ELSE Append(InsertKeyDescending(SubSeq(sorted, 1, Len(sorted) - 1), key),
                sorted[Len(sorted)])

RECURSIVE InsertKey(_, _)
InsertKey(sorted, key) ==
    IF Len(sorted) = 0 THEN <<key>>
    ELSE IF Int_(sorted[Len(sorted)]) <= Int_(key) THEN Append(sorted, key)
    ELSE Append(InsertKey(SubSeq(sorted, 1, Len(sorted) - 1), key), sorted[Len(sorted)])

RECURSIVE SortedByInt(_)
SortedByInt(keys) ==
    IF Len(keys) = 0 THEN <<>>
    ELSE InsertKey(SortedByInt(SubSeq(keys, 1, Len(keys) - 1)), keys[Len(keys)])

AllIntKeys(p) == \A i \in 1..Len(p) : IntOk(p[i].k)

\* {year: puzzles[year] for year in sorted_years}
SortedPuzzles(p) ==
    LET sorted_years == SortedByInt(Keys(p))
    IN  [i \in 1..Len(p) |-> [k |-> sorted_years[i], v |-> Get(p, sorted_years[i])]]

(***************************************************************************)
(* The file and the two loaders.                                           *)
(***************************************************************************)
Absent == [kind |-> "absent", doc |-> EmptyObj]

Malformed == [kind |-> "malformed", doc |-> EmptyObj]

File(doc) == [kind |-> "doc", doc |-> doc]

\* data.get("puzzles", {})
PuzzlesOf(data) == IF "puzzles" \in DOMAIN data THEN data["puzzles"] ELSE <<>>

\* read_puzzles: exits when the file is missing; json.load raises on bad JSON
read_puzzles(d) ==
    IF d.kind = "absent" THEN [err |-> "NotFound", val |-> <<>>]
    ELSE IF d.kind = "malformed" THEN [err |-> "ParseError", val |-> <<>>]
    ELSE [err |-> "None", val |-> PuzzlesOf(d.doc)]

\* read_full_json: the default document when the file is missing
read_full_json(d) ==
    IF d.kind = "absent" THEN [err |-> "None", val |-> [puzzles |-> <<>>, meta |-> EmptyObj]]
    ELSE IF d.kind = "malformed" THEN [err |-> "ParseError", val |-> EmptyObj]
    ELSE [err |-> "None", val |-> d.doc]

(***************************************************************************)
(* write_puzzles.                                                          *)
(***************************************************************************)
\* the years formatted as integers again instead of as the keys found
DateRangeNormalised(sorted_years) ==
    IF Len(sorted_years) > 0
    THEN Str(Int_(sorted_years[1])) \o <<"-">> \o Str(Int_(sorted_years[Len(sorted_years)]))
    ELSE <<>>

\* f"{min_year}-{max_year}", or "" for no years
DateRange(sorted_years) ==
    IF Len(sorted_years) > 0
    THEN sorted_years[1] \o <<"-">> \o sorted_years[Len(sorted_years)]
    ELSE <<>>

\* the document built from nothing instead of from the re-read file
FileContentFromScratch(fresh, puzzles) ==
    LET sorted_puzzles == SortedPuzzles(puzzles)
        meta == SetField(SetField(EmptyObj, "total_puzzles", Len(sorted_puzzles)),
                         "date_range", DateRange(Keys(sorted_puzzles)))
    IN  [puzzles |-> sorted_puzzles, meta |-> meta]

RECURSIVE MergeInto(_, _)
MergeInto(base, extra) ==
    IF Len(extra) = 0 THEN base
    ELSE MergeInto(DictSet(base, Head(extra).k, Head(extra).v), Tail(extra))

\* the caller's puzzles merged into the re-read puzzles instead of replacing them
FileContentMerged(fresh, puzzles) ==
    LET sorted_puzzles == SortedPuzzles(MergeInto(PuzzlesOf(fresh), puzzles))
        with_puzzles == SetField(fresh, "puzzles", sorted_puzzles)
        with_meta == IF "meta" \in DOMAIN with_puzzles THEN with_puzzles
                     ELSE SetField(with_puzzles, "meta", EmptyObj)
        meta == SetField(SetField(with_meta["meta"], "total_puzzles", Len(sorted_puzzles)),
                         "date_range", DateRange(Keys(sorted_puzzles)))
    IN  SetField(with_meta, "meta", meta)

\* lines 38-49: the re-read document with puzzles and the derived meta overlaid
FileContent(fresh, puzzles) ==
    LET sorted_puzzles == SortedPuzzles(puzzles)
        with_puzzles == SetField(fresh, "puzzles", sorted_puzzles)
        with_meta == IF "meta" \in DOMAIN with_puzzles THEN with_puzzles
                     ELSE SetField(with_puzzles, "meta", EmptyObj)
        meta == SetField(SetField(with_meta["meta"], "total_puzzles", Len(sorted_puzzles)),
                         "date_range", DateRange(Keys(sorted_puzzles)))
    IN  SetField(with_meta, "meta", meta)

\* lines 28-32: sorted(..., key=int) raises ValueError on a key that is no integer
sort_error(data) == IF AllIntKeys(PuzzlesOf(data)) THEN "None" ELSE "InvalidYearKey"

\* the ValueError swallowed and the puzzles written in the order given
write_puzzles_unsorted(data, d) ==
    IF read_full_json(d).err # "None" THEN [err |-> read_full_json(d).err, disk |-> d]
    ELSE IF sort_error(data) # "None"
    THEN [err |-> "None",
          disk |-> File(SetField(read_full_json(d).val, "puzzles", PuzzlesOf(data)))]
    ELSE [err |-> "None", disk |-> File(FileContent(read_full_json(d).val, PuzzlesOf(data)))]

\* the whole of write_puzzles(data) against the file d: the error and the file after it
write_puzzles(data, d) ==
    IF sort_error(data) # "None" THEN [err |-> sort_error(data), disk |-> d]
    ELSE IF read_full_json(d).err # "None" THEN [err |-> read_full_json(d).err, disk |-> d]
    ELSE [err |-> "None", disk |-> File(FileContent(read_full_json(d).val, PuzzlesOf(data)))]

(***************************************************************************)
(* The commands, each as the result record of one invocation.              *)
(***************************************************************************)
Result(cmd, year, hints, err, writer, out) ==
    [cmd |-> cmd, year |-> year, hints |-> hints, err |-> err,
     exit |-> IF err = "None" THEN 0 ELSE 1, writer |-> writer, out |-> out]

\* lines 74-75 and 88-89: write_puzzles(file_content), then the success message
Written(cmd, year, hints, data, d) ==
    LET written == write_puzzles(data, d)
    IN  IF written.err # "None"
        THEN [res |-> Result(cmd, year, hints, written.err, TRUE, <<>>), disk |-> d]
        ELSE [res |-> Result(cmd, year, hints, "None", TRUE,
                             << <<"Successfully updated PUZZLES_FILE_PATH">>,
                                <<IF cmd = "add" THEN "Successfully added year "
                                  ELSE "Successfully updated year ">> \o Str(year) \o <<".">> >>),
              disk |-> written.disk]

\* the membership test left out: add overwrites
add_load_upsert(year, hints, d) ==
    LET loaded == read_full_json(d)
        puzzles == PuzzlesOf(loaded.val)
    IN  IF loaded.err # "None" THEN [err |-> loaded.err, data |-> EmptyObj]
        ELSE [err |-> "None",
              data |-> SetField(loaded.val, "puzzles", DictSet(puzzles, Str(year), hints))]

\* lines 65-73: load, refuse a year that is already a key, set the year in memory
add_load(year, hints, d) ==
    LET loaded == read_full_json(d)
        puzzles == PuzzlesOf(loaded.val)
    IN  IF loaded.err # "None" THEN [err |-> loaded.err, data |-> EmptyObj]
        ELSE IF Has(puzzles, Str(year)) THEN [err |-> "DuplicateYear", data |-> loaded.val]
        ELSE [err |-> "None",
              data |-> SetField(loaded.val, "puzzles", DictSet(puzzles, Str(year), hints))]

add_puzzle(year, hints, d) ==
    LET load == add_load(year, hints, d)
    IN  IF load.err # "None"
        THEN [res |-> Result("add", year, hints, load.err, FALSE, <<>>), disk |-> d]
        ELSE Written("add", year, hints, load.data, d)

\* the membership test left out: update creates
update_load_upsert(year, hints, d) ==
    LET loaded == read_full_json(d)
        puzzles == PuzzlesOf(loaded.val)
    IN  IF loaded.err # "None" THEN [err |-> loaded.err, data |-> EmptyObj]
        ELSE [err |-> "None",
              data |-> SetField(loaded.val, "puzzles", DictSet(puzzles, Str(year), hints))]

\* the new hints appended to the year's hints instead of replacing them
update_load_extend(year, hints, d) ==
    LET loaded == read_full_json(d)
        puzzles == PuzzlesOf(loaded.val)
    IN  IF loaded.err # "None" THEN [err |-> loaded.err, data |-> EmptyObj]
        ELSE IF ~Has(puzzles, Str(year)) THEN [err |-> "YearNotFound", data |-> loaded.val]
        ELSE [err |-> "None",
              data |-> SetField(loaded.val, "puzzles",
                                DictSet(puzzles, Str(year), Get(puzzles, Str(year)) \o hints))]

\* lines 79-87: load, refuse a year that is not a key, replace the year's hints in memory
update_load(year, hints, d) ==
    LET loaded == read_full_json(d)
        puzzles == PuzzlesOf(loaded.val)
    IN  IF loaded.err # "None" THEN [err |-> loaded.err, data |-> EmptyObj]
        ELSE IF ~Has(puzzles, Str(year)) THEN [err |-> "YearNotFound", data |-> loaded.val]
        ELSE [err |-> "None",
              data |-> SetField(loaded.val, "puzzles", DictSet(puzzles, Str(year), hints))]

update_puzzle(year, hints, d) ==
    LET load == update_load(year, hints, d)
    IN  IF load.err # "None"
        THEN [res |-> Result("update", year, hints, load.err, FALSE, <<>>), disk |-> d]
        ELSE Written("update", year, hints, load.data, d)

col_width == 8

cols == 10

\* f"{year: <{col_width}}": left-aligned, padded with spaces, never cut
RECURSIVE Pad(_)
Pad(s) == IF Len(s) >= col_width THEN s ELSE Pad(Append(s, " "))

RECURSIVE Concat(_)
Concat(ss) == IF Len(ss) = 0 THEN <<>> ELSE Head(ss) \o Concat(Tail(ss))

Min(a, b) == IF a < b THEN a ELSE b

\* one printed line per cols years
RECURSIVE Rows(_)
Rows(sorted_years) ==
    IF Len(sorted_years) = 0 THEN <<>>
    ELSE LET n == Min(cols, Len(sorted_years))
         IN  <<Concat([i \in 1..n |-> Pad(sorted_years[i])])>>
             \o Rows(SubSeq(sorted_years, n + 1, Len(sorted_years)))

\* list_puzzles: the ValueError of sorted(..., key=int) is not caught here
list_puzzles(d) ==
    LET loaded == read_puzzles(d)
    IN  IF loaded.err # "None" THEN Result("list", 0, <<>>, loaded.err, FALSE, <<>>)
        ELSE IF ~AllIntKeys(loaded.val) THEN Result("list", 0, <<>>, "ValueError", FALSE, <<>>)
        ELSE Result("list", 0, <<>>, "None", FALSE,
                    << <<"The following years have hints defined in puzzles.json:">> >>
                    \o Rows(SortedByInt(Keys(loaded.val))))

show_puzzle(year, d) ==
    LET loaded == read_puzzles(d)
        year_str == Str(year)
    IN  IF loaded.err # "None" THEN Result("show", year, <<>>, loaded.err, FALSE, <<>>)
        ELSE IF Has(loaded.val, year_str)
        THEN Result("show", year, <<>>, "None", FALSE,
                    << <<"Hints for year ">> \o year_str \o <<":">> >>
                    \o [i \in 1..Len(Get(loaded.val, year_str)) |->
                          <<" ", " ">> \o Str(i) \o <<".", " ", Get(loaded.val, year_str)[i]>>])
        ELSE Result("show", year, <<>>, "YearNotFound", FALSE, <<>>)

count_puzzles(d) ==
    LET loaded == read_puzzles(d)
    IN  IF loaded.err # "None" THEN Result("count", 0, <<>>, loaded.err, FALSE, <<>>)
        ELSE Result("count", 0, <<>>, "None", FALSE,
                    << <<"There are ">> \o Str(Len(loaded.val)) \o <<" puzzles in the file.">> >>)

(***************************************************************************)
(* The command lines and the stored documents the model starts from.       *)
(***************************************************************************)
\* --year values: a BCE year, and two whose keys sort differently as strings and as numbers
YearArgs == {-44, 5, 10}

\* keys only a hand edit can put in the file: two more spellings of 5, and a non-number
HandKeys == {<<"0", "5">>, <<"+", "5">>, <<"5", "x">>}

StoredKeys == {Str(y) : y \in YearArgs} \cup HandKeys

SeqsUpTo(S, n) == UNION {[1..m -> S] : m \in 0..n}

\* --hints takes one or more strings (nargs='+')
HintArgs == {<<"q">>, <<"r", "q">>}

StoredHints == {<<"w">>, <<"x", "y", "z">>}

StoredPuzzles ==
    {p \in SeqsUpTo([k : StoredKeys, v : StoredHints], MaxKeys) :
        \A i, j \in 1..Len(p) : p[i].k = p[j].k => i = j}

\* metadata no write of this program made: wrong values, and a member the program ignores
StaleMeta == [total_puzzles |-> 99, date_range |-> <<"1", "-", "2">>, version |-> "v1"]

StoredDocs ==
    {[puzzles |-> p] : p \in StoredPuzzles}
    \cup {[puzzles |-> p, meta |-> EmptyObj] : p \in StoredPuzzles}
    \cup {[puzzles |-> p, meta |-> StaleMeta, note |-> "keep"] : p \in StoredPuzzles}
    \cup {[note |-> "keep"]}

NoResult == Result("none", 0, <<>>, "None", FALSE, <<>>)

NoInvocations == <<>>

Init ==
    /\ disk \in {Absent, Malformed} \cup {File(doc) : doc \in StoredDocs}
    /\ res = NoResult
    /\ inv = NoInvocations
    /\ writes = <<>>

(***************************************************************************)
(* One invocation at a time: each action is one whole run of a command.    *)
(***************************************************************************)
\* the stored document never grows past MaxKeys members
Add ==
    \E year \in YearArgs, hints \in HintArgs :
        LET done == add_puzzle(year, hints, disk)
        IN  /\ Len(PuzzlesOf(done.disk.doc)) <= MaxKeys
            /\ disk' = done.disk
            /\ res' = done.res
            /\ UNCHANGED <<inv, writes>>

Update ==
    \E year \in YearArgs, hints \in HintArgs :
        LET done == update_puzzle(year, hints, disk)
        IN  /\ disk' = done.disk
            /\ res' = done.res
            /\ UNCHANGED <<inv, writes>>

List ==
    /\ res' = list_puzzles(disk)
    /\ UNCHANGED <<disk, inv, writes>>

Show ==
    \E year \in YearArgs :
        /\ res' = show_puzzle(year, disk)
        /\ UNCHANGED <<disk, inv, writes>>

Count ==
    /\ res' = count_puzzles(disk)
    /\ UNCHANGED <<disk, inv, writes>>

Next == Add \/ Update \/ List \/ Show \/ Count

Spec == Init /\ [][Next]_vars

(***************************************************************************)
(* Two invocations of add or update at once.  An invocation touches the    *)
(* file three times: the load of add_puzzle or update_puzzle (line 65 or   *)
(* 79), the re-read of write_puzzles (line 37) and the write (lines        *)
(* 52-53).  What it computes in between is local to it, so each step is    *)
(* one file access with the computation that follows it.                   *)
(***************************************************************************)
Procs == {1, 2}

\* the --hints of each of the two command lines
RaceHints(p) == IF p = 1 THEN <<"q">> ELSE <<"r", "q">>

Idle ==
    [pc |-> "start", cmd |-> "none", year |-> 0, hints |-> <<>>,
     data |-> EmptyObj, fresh |-> EmptyObj, err |-> "None"]

RaceDocs ==
    {[puzzles |-> p, meta |-> StaleMeta, note |-> "keep"] :
        p \in {q \in StoredPuzzles : \A i \in 1..Len(q) : q[i].v = <<"w">>}}

RaceInit ==
    /\ disk \in {Absent, Malformed} \cup {File(doc) : doc \in RaceDocs}
    /\ res = NoResult
    /\ inv = [p \in Procs |-> Idle]
    /\ writes = <<>>

\* lines 65-73 or 79-87, then lines 25-34 of write_puzzles
Load(p) ==
    \E cmd \in {"add", "update"}, year \in YearArgs :
        LET load == IF cmd = "add" THEN add_load(year, RaceHints(p), disk)
                    ELSE update_load(year, RaceHints(p), disk)
            err == IF load.err # "None" THEN load.err ELSE sort_error(load.data)
        IN  /\ inv[p].pc = "start"
            /\ Len(PuzzlesOf(load.data)) <= MaxKeys
            /\ inv' = [inv EXCEPT ![p] =
                          [pc |-> IF err = "None" THEN "reread" ELSE "done",
                           cmd |-> cmd, year |-> year, hints |-> RaceHints(p),
                           data |-> load.data, fresh |-> EmptyObj, err |-> err]]
            /\ UNCHANGED <<disk, res, writes>>

\* line 37
ReRead(p) ==
    LET fresh == read_full_json(disk)
    IN  /\ inv[p].pc = "reread"
        /\ inv' = [inv EXCEPT ![p].pc = IF fresh.err = "None" THEN "write" ELSE "done",
                              ![p].fresh = fresh.val,
                              ![p].err = fresh.err]
        /\ UNCHANGED <<disk, res, writes>>

\* lines 38-54
Write(p) ==
    /\ inv[p].pc = "write"
    /\ disk' = File(FileContent(inv[p].fresh, PuzzlesOf(inv[p].data)))
    /\ writes' = Append(writes, p)
    /\ inv' = [inv EXCEPT ![p].pc = "done"]
    /\ UNCHANGED res

RaceNext == \E p \in Procs : Load(p) \/ ReRead(p) \/ Write(p)

RaceSpec == RaceInit /\ [][RaceNext]_vars

(***************************************************************************)
(* Properties.                                                             *)
(***************************************************************************)
OnDisk == PuzzlesOf(disk.doc)

\* the last invocation was an add or an update that wrote the file and exited 0
Wrote == res.cmd \in {"add", "update"} /\ res.exit = 0

Dash(a, b) == a \o <<"-">> \o b

\* C1: after a successful add or update, whatever meta the file held before,
\* meta.total_puzzles is the number of keys of puzzles and meta.date_range is
\* "<k_min>-<k_max>", the keys of smallest and largest integer value as they
\* are spelled in the file ("" for no keys).
MetaConsistent ==
    Wrote =>
        /\ disk.kind = "doc"
        /\ {"puzzles", "meta"} \subseteq DOMAIN disk.doc
        /\ {"total_puzzles", "date_range"} \subseteq DOMAIN disk.doc.meta
        /\ disk.doc.meta.total_puzzles = Cardinality(KeySet(OnDisk))
        /\ IF KeySet(OnDisk) = {} THEN disk.doc.meta.date_range = <<>>
           ELSE \E k_min, k_max \in KeySet(OnDisk) :
                    /\ \A k \in KeySet(OnDisk) : Int_(k_min) <= Int_(k) /\ Int_(k) <= Int_(k_max)
                    /\ disk.doc.meta.date_range = Dash(k_min, k_max)

\* a stale meta corrected: the file held meta {99, "1-2", version} and after the
\* add of -44 it holds 2 and "-44-10"
MetaCorrected ==
    /\ Wrote
    /\ res.year = -44
    /\ Keys(OnDisk) = <<Str(-44), Str(10)>>
    /\ "version" \in DOMAIN disk.doc.meta
    /\ disk.doc.meta.total_puzzles = 2
    /\ disk.doc.meta.date_range = <<"-", "4", "4", "-", "1", "0">>

\* C2 as stated: after a successful add or update every key's integer value is
\* strictly less than that of the key following it, hand-edited spellings included.
KeysStrictlyAscending ==
    Wrote => \A i \in 1..(Len(OnDisk) - 1) : Int_(OnDisk[i].k) < Int_(OnDisk[i + 1].k)

\* C2 as amended: after a successful add or update no key's integer value is
\* greater than that of the key following it, and the order is strict when no
\* two keys of the file spell the same integer.
KeysAscending ==
    Wrote =>
        /\ \A i \in 1..(Len(OnDisk) - 1) : Int_(OnDisk[i].k) <= Int_(OnDisk[i + 1].k)
        /\ (\A k1, k2 \in KeySet(OnDisk) : Int_(k1) = Int_(k2) => k1 = k2)
              => \A i \in 1..(Len(OnDisk) - 1) : Int_(OnDisk[i].k) < Int_(OnDisk[i + 1].k)

\* the sort moved a key: add puts -44 last in memory and it is first on disk
KeysReordered ==
    /\ Wrote
    /\ res.cmd = "add"
    /\ res.year = -44
    /\ Len(OnDisk) = 2
    /\ OnDisk[1].k = Str(-44)

\* C3: add of a year that is a key of the stored document fails with
\* DuplicateYear, exits non-zero, does not call write_puzzles and leaves the
\* file as it was.
AddDuplicateRefused ==
    [][(/\ disk.kind = "doc"
        /\ res'.cmd = "add"
        /\ Has(OnDisk, Str(res'.year)))
       => (/\ res'.err = "DuplicateYear"
           /\ res'.exit # 0
           /\ ~res'.writer
           /\ disk' = disk)]_vars

AddDuplicateSeen ==
    /\ res.cmd = "add"
    /\ res.err = "DuplicateYear"
    /\ disk.kind = "doc"
    /\ Has(OnDisk, Str(res.year))
    /\ Get(OnDisk, Str(res.year)) # res.hints

\* C4: update of a year that is no key of the stored document fails with
\* YearNotFound, exits non-zero, does not call write_puzzles and leaves the
\* file as it was: the year is not created.
UpdateAbsentRefused ==
    [][(/\ disk.kind = "doc"
        /\ res'.cmd = "update"
        /\ ~Has(OnDisk, Str(res'.year)))
       => (/\ res'.err = "YearNotFound"
           /\ res'.exit # 0
           /\ ~res'.writer
           /\ disk' = disk)]_vars

UpdateAbsentSeen ==
    /\ res.cmd = "update"
    /\ res.err = "YearNotFound"
    /\ disk.kind = "doc"
    /\ Len(OnDisk) > 0
    /\ ~Has(OnDisk, Str(res.year))

\* C5 as stated: with no store file every command fails with NotFound and
\* creates no file.
MissingStoreNotFound ==
    [][disk.kind = "absent" => (res'.err = "NotFound" /\ disk'.kind = "absent")]_vars

\* C6 as stated: with a key in the file that is no integer, every add and
\* every update fails with InvalidYearKey and leaves the file as it was.
InvalidKeyAlwaysReported ==
    [][(/\ disk.kind = "doc"
        /\ ~AllIntKeys(OnDisk)
        /\ res'.cmd \in {"add", "update"})
       => (res'.err = "InvalidYearKey" /\ disk' = disk)]_vars

\* C6 as amended: with a key in the file that is no integer, every add and
\* every update exits non-zero and leaves the file as it was; the error is
\* InvalidYearKey when the command gets to write_puzzles (add of a year that is
\* no key, update of a year that is a key), DuplicateYear for add of a year
\* that is a key and YearNotFound for update of a year that is no key.
InvalidKeyBlocksWrite ==
    [][(/\ disk.kind = "doc"
        /\ ~AllIntKeys(OnDisk)
        /\ res'.cmd \in {"add", "update"})
       => (/\ disk' = disk
           /\ res'.exit # 0
           /\ res'.err =
                IF res'.cmd = "add"
                THEN (IF Has(OnDisk, Str(res'.year)) THEN "DuplicateYear" ELSE "InvalidYearKey")
                ELSE (IF Has(OnDisk, Str(res'.year)) THEN "InvalidYearKey" ELSE "YearNotFound"))]_vars

InvalidKeySeen ==
    /\ res.err = "InvalidYearKey"
    /\ res.writer
    /\ disk.kind = "doc"
    /\ ~AllIntKeys(OnDisk)

Others(obj, known) == DOMAIN obj \ known

MetaOf(doc) == IF "meta" \in DOMAIN doc THEN doc["meta"] ELSE EmptyObj

\* C7: a successful add or update keeps every member of the stored document
\* other than puzzles and meta, with its value, and adds none; within meta it
\* keeps every member other than total_puzzles and date_range.  The document
\* written is the one read back from the file with puzzles and the two derived
\* members laid over it.
OtherFieldsPreserved ==
    [][(res'.cmd \in {"add", "update"} /\ res'.exit = 0)
       => (/\ disk'.kind = "doc"
           /\ Others(disk'.doc, {"puzzles", "meta"}) = Others(disk.doc, {"puzzles", "meta"})
           /\ \A f \in Others(disk.doc, {"puzzles", "meta"}) : disk'.doc[f] = disk.doc[f]
           /\ Others(disk'.doc.meta, {"total_puzzles", "date_range"})
                = Others(MetaOf(disk.doc), {"total_puzzles", "date_range"})
           /\ \A f \in Others(MetaOf(disk.doc), {"total_puzzles", "date_range"}) :
                  disk'.doc.meta[f] = disk.doc.meta[f])]_vars

OtherFieldsSeen ==
    /\ Wrote
    /\ disk.doc.meta.total_puzzles = Len(OnDisk)
    /\ "note" \in DOMAIN disk.doc
    /\ disk.doc.note = "keep"
    /\ "version" \in DOMAIN disk.doc.meta

\* C9 as stated: list succeeds on every document that loads, whatever its
\* keys, and prints every key once.
ListNeverFails ==
    (res.cmd = "list" /\ disk.kind = "doc")
        => (res.exit = 0 /\ Len(Concat(Tail(res.out))) = col_width * Len(OnDisk))

\* C10: a successful update leaves the year with exactly the hints given, in
\* the order given, the same set of keys as before, and every other year's
\* hints as they were.
UpdateReplacesWholesale ==
    [][(res'.cmd = "update" /\ res'.exit = 0)
       => (/\ disk'.kind = "doc"
           /\ KeySet(PuzzlesOf(disk'.doc)) = KeySet(OnDisk)
           /\ Len(PuzzlesOf(disk'.doc)) = Len(OnDisk)
           /\ Get(PuzzlesOf(disk'.doc), Str(res'.year)) = res'.hints
           /\ \A k \in KeySet(OnDisk) \ {Str(res'.year)} :
                  Get(PuzzlesOf(disk'.doc), k) = Get(OnDisk, k))]_vars

UpdateSeen ==
    /\ res.cmd = "update"
    /\ res.exit = 0
    /\ res.year = 5
    /\ res.hints = <<"q">>
    /\ KeySet(OnDisk) = {Str(5), Str(10)}
    /\ Get(OnDisk, Str(5)) = <<"q">>
    /\ Get(OnDisk, Str(10)) = <<"x", "y", "z">>

\* C8: with two invocations interleaved, the puzzles in the file are those of
\* the invocation that wrote last (what it loaded, with its own change); an
\* invocation ends in an error only by its own test on what it loaded, never
\* because the other one wrote, and otherwise it writes once and exits 0.
LastWriterWins ==
    /\ writes # <<>> =>
          /\ disk.kind = "doc"
          /\ OnDisk = SortedPuzzles(PuzzlesOf(inv[writes[Len(writes)]].data))
    /\ \A p \in Procs :
          /\ Cardinality({i \in 1..Len(writes) : writes[i] = p}) <= 1
          /\ inv[p].pc \in {"reread", "write"} => inv[p].err = "None"
          /\ inv[p].pc = "done" =>
                \/ /\ inv[p].err = "None"
                   /\ \E i \in 1..Len(writes) : writes[i] = p
                \/ /\ inv[p].err = "DuplicateYear"
                   /\ inv[p].cmd = "add"
                   /\ Has(PuzzlesOf(inv[p].data), Str(inv[p].year))
                \/ /\ inv[p].err = "YearNotFound"
                   /\ inv[p].cmd = "update"
                   /\ ~Has(PuzzlesOf(inv[p].data), Str(inv[p].year))
                \/ /\ inv[p].err = "InvalidYearKey"
                   /\ ~AllIntKeys(PuzzlesOf(inv[p].data))
                \/ /\ inv[p].err = "ParseError"
                   /\ disk.kind = "malformed"

\* a lost update: both exited 0, 1 wrote before 2, and the year 1 added is not
\* in the file
LostUpdate ==
    /\ \A p \in Procs : inv[p].pc = "done" /\ inv[p].err = "None"
    /\ writes = <<1, 2>>
    /\ inv[1].cmd = "add"
    /\ ~Has(OnDisk, Str(inv[1].year))
    /\ Has(PuzzlesOf(inv[1].data), Str(inv[1].year))

====
